---- MODULE Spec2Model ----
(***************************************************************************)
(* Model of src/src/conversion-tools.ts: the two tool handlers registered  *)
(* by registerConversionTools (convert-planner-task-to-todo and            *)
(* find-todo-task) and the pure helpers mapPlannerToTodo / buildTaskBody;  *)
(* and of src/unnamed/part_000: the build-time generator generateMcpTools  *)
(* (specification GenSpec).                                                *)
(*                                                                         *)
(* Every `await graphClient.graphRequest(...)` is one step of a handler.   *)
(* The remote side is not part of the program: each call either rejects    *)
(* ("throw"), returns an envelope whose text does not parse ("malformed",  *)
(* JSON.parse throws) or returns a parsed payload ("ok").  The log `calls` *)
(* records every request issued, in order, with its outcome.               *)
(*                                                                         *)
(* Optional values (undefined / null) are sequences of length 0 or 1.      *)
(* Strings that the code inspects character by character are sequences of  *)
(* one-character strings.                                                  *)
(***************************************************************************)
EXTENDS Integers, Sequences, FiniteSets, TLC

VARIABLES
    pc,               \* position of the running handler
    params,           \* validated parameters of the invocation
    calls,            \* remote requests issued so far, in order
    response,         \* envelope returned by the handler (Nil until it returns)
    plannerTask,      \* convert: parsed source task
    taskDetails,      \* convert: parsed source task details or Nil
    listId,           \* convert: resolved destination list id
    createdTodoTask,  \* convert: parsed creation response or Nil
    sortedItems,      \* convert: checklist items in creation order
    checklistResults, \* convert: one ChecklistItemResult per attempt
    plannerStatus,    \* convert: disposition of the source task
    etag,             \* convert: concurrency token used by the update
    listsToSearch,    \* find: list ids in search order
    searchKeyword,    \* find: derived keyword
    searched,         \* find: number of lists the search loop has visited
    allMatches,       \* find: FoundTask records in discovery order
    exactMatch,       \* find: FoundTask of the exact match or Nil
    gpc,              \* generator: position of generateMcpTools
    disk,             \* generator: output directory and client file
    sys,              \* generator: file and process calls that could fail
    generated,        \* generator: text the external tool wrote, or Nil
    clientCode,       \* generator: text held by the local clientCode
    result            \* generator: return value or thrown error, or Nil

convVars == <<plannerTask, taskDetails, listId, createdTodoTask, sortedItems,
              checklistResults, plannerStatus, etag>>
findVars == <<listsToSearch, searchKeyword, searched, allMatches, exactMatch>>
genVars == <<gpc, disk, sys, generated, clientCode, result>>
toolVars == <<pc, params, calls, response, convVars, findVars>>
vars == <<toolVars, genVars>>

Nil == <<>>
Some(x) == <<x>>

\* ---------------------------------------------------------------- bounds
MaxChecklist == 2
MaxLists == 2

\* ------------------------------------------------------- generic helpers
Range(q) == {q[i] : i \in 1..Len(q)}

\* Sequences over S of length at most n without repeated elements.
RECURSIVE UniqueSeqs(_, _)
UniqueSeqs(S, n) ==
    IF n = 0 THEN {<<>>}
    ELSE LET shorter == UniqueSeqs(S, n - 1)
         IN shorter \cup
            UNION {{Append(q, x) : x \in S \ Range(q)} :
                       q \in {r \in shorter : Len(r) = n - 1}}

\* JavaScript truthiness of an optional string: undefined and '' are falsy.
TruthyStr(o) == o # Nil /\ o[1] # ""

\* ------------------------------------------------------------ the remote
\* Outcomes of a call whose response text the handler parses.
Failures == {"throw", "malformed"}

ErrorMessage(outcome) ==
    IF outcome = "throw" THEN "Graph API error" ELSE "Unexpected end of JSON input"

\* Source tasks the remote may hold under the requested id: every priority
\* code, every completion percentage, with and without a due date.
Priorities == {-1, 0, 1, 2, 5, 9, 10}
Percents == {0, 50, 99, 100}
DueDates == {Nil, Some(""), Some("2026-03-01T00:00:00Z")}

PlannerTaskOf(p, c, d) ==
    [id |-> "P1", title |-> "Tapped Hole", planId |-> "plan1",
     priority |-> p, percentComplete |-> c, dueDateTime |-> d,
     createdDateTime |-> "2026-01-15T08:00:00Z"]

PlannerTasks ==
    {PlannerTaskOf(p, 100, Nil) : p \in Priorities}
    \cup {PlannerTaskOf(1, c, Nil) : c \in Percents}
    \cup {PlannerTaskOf(5, 0, d) : d \in DueDates}

\* Checklist items of the source details; orderHint is optional.
ItemPool ==
    {[title |-> "drill", isChecked |-> FALSE, orderHint |-> Some("B!")],
     [title |-> "tap", isChecked |-> TRUE, orderHint |-> Some("A!")],
     [title |-> "deburr", isChecked |-> FALSE, orderHint |-> Nil]}

Descriptions == {Nil, Some(""), Some("Use M6 tap")}

\* checklist: Nil when the details carry no checklist, else the items in
\* Object.values order.  Every description without a checklist, every
\* checklist without and with a description.
PlannerTaskDetailsSet ==
    {[description |-> d, checklist |-> Nil] : d \in Descriptions}
    \cup {[description |-> d, checklist |-> Some(q)] :
              d \in {Nil, Some("Use M6 tap")},
              q \in UniqueSeqs(ItemPool, MaxChecklist)}

\* Destination lists known to the remote.
NameRoiTasks ==
    <<"R", "O", "I", " ", "T", "a", "s", "k", "s">>
NameTasks ==
    <<"T", "a", "s", "k", "s">>
NameGroceries ==
    <<"G", "r", "o", "c", "e", "r", "i", "e", "s">>
NameAdHoc ==
    <<"A", "d", "-", "H", "o", "c", " ", "Q", "u", "i", "c", "k", "i", "e",
      "s">>
NameErrands ==
    <<"E", "r", "r", "a", "n", "d", "s">>
NameGoalPhase ==
    <<"G", "o", "a", "l", " ", "P", "h", "a", "s", "e", " ", "A", "d", "-",
      "H", "o", "c">>

ListPool ==
    {[id |-> "L1", displayName |-> NameGroceries, wellknownListName |-> "none"],
     [id |-> "L2", displayName |-> NameTasks, wellknownListName |-> "defaultList"],
     [id |-> "L3", displayName |-> NameRoiTasks, wellknownListName |-> "none"],
     [id |-> "L4", displayName |-> NameAdHoc, wellknownListName |-> "none"],
     [id |-> "L5", displayName |-> NameErrands, wellknownListName |-> "none"],
     [id |-> "L6", displayName |-> NameGoalPhase, wellknownListName |-> "none"]}

\* value of the /me/todo/lists payload: Nil when the payload has no value.
ListsPayloads == {Nil} \cup {Some(q) : q \in UniqueSeqs(ListPool, MaxLists)}

\* The payloads offered to the converter, which looks at the well-known name
\* only: lists with and without the default flag, in either order.
DefaultListPayloads ==
    {Nil} \cup {Some(q) : q \in UniqueSeqs({l \in ListPool : l.id \in {"L1", "L2"}},
                                           MaxLists)}

Etags == {Nil, Some(""), Some("W/1")}

\* ------------------------------------------------------ the field mapper
\* lines.join(sep): the lines with the separator between neighbours.
RECURSIVE Join(_, _)
Join(lines, sep) ==
    IF Len(lines) = 0 THEN <<>>
    ELSE IF Len(lines) = 1 THEN <<lines[1]>>
    ELSE <<lines[1], sep>> \o Join(Tail(lines), sep)

\* Variant: the metadata is pushed before the description.
buildTaskBody_MetadataFirst(task, details) ==
    LET described == details # Nil /\ TruthyStr(details[1].description)
        lines == <<"--- Converted from Planner ---",
                   "Plan ID: " \o task.planId,
                   "Original Task ID: " \o task.id,
                   "Created: " \o task.createdDateTime>>
                 \o (IF described THEN <<"", details[1].description[1]>> ELSE <<>>)
    IN Join(lines, "\n")

buildTaskBody(task, details) ==
    LET described == details # Nil /\ TruthyStr(details[1].description)
        lines == (IF described THEN <<details[1].description[1], "">> ELSE <<>>)
                 \o <<"--- Converted from Planner ---",
                      "Plan ID: " \o task.planId,
                      "Original Task ID: " \o task.id,
                      "Created: " \o task.createdDateTime>>
    IN Join(lines, "\n")

importanceMap == (1 :> "high") @@ (5 :> "normal") @@ (9 :> "low")

\* Variant: unmapped codes fall back to the lowest importance.
Importance_DefaultLow(priority) ==
    IF priority \in DOMAIN importanceMap THEN importanceMap[priority] ELSE "low"

\* importanceMap[task.priority] || 'normal'
Importance(priority) ==
    IF priority \in DOMAIN importanceMap THEN importanceMap[priority] ELSE "normal"

\* Variant: any progress counts as completed.
Status_AnyProgress(percentComplete) ==
    IF percentComplete # 0 THEN "completed" ELSE "notStarted"

\* task.percentComplete === 100 ? 'completed' : 'notStarted'
Status(percentComplete) ==
    IF percentComplete = 100 THEN "completed" ELSE "notStarted"

mapPlannerToTodo(task, details, addPrefix) ==
    [title |-> IF addPrefix THEN "[Planner] " \o task.title ELSE task.title,
     body |-> [content |-> buildTaskBody(task, details), contentType |-> "text"],
     importance |-> Importance(task.priority),
     status |-> Status(task.percentComplete),
     dueDateTime |-> IF TruthyStr(task.dueDateTime)
                     THEN Some([dateTime |-> task.dueDateTime[1], timeZone |-> "UTC"])
                     ELSE Nil]

\* ----------------------------------------------------------- stable sort
\* Array.prototype.sort with a comparator that orders by key[x]: elements of
\* equal key keep their relative order.
RECURSIVE InsertByKey(_, _, _)
InsertByKey(sorted, x, key) ==
    IF sorted = <<>> THEN <<x>>
    ELSE IF key[Head(sorted)] <= key[x]
         THEN <<Head(sorted)>> \o InsertByKey(Tail(sorted), x, key)
         ELSE <<x>> \o sorted

RECURSIVE StableSortByKey(_, _)
StableSortByKey(q, key) ==
    IF q = <<>> THEN <<>>
    ELSE InsertByKey(StableSortByKey(SubSeq(q, 1, Len(q) - 1), key), q[Len(q)], key)

\* Position of an order hint under String.prototype.localeCompare.
HintOrder == <<"", "A!", "B!">>

\* a.orderHint || ''
HintOf(item) == IF TruthyStr(item.orderHint) THEN item.orderHint[1] ELSE ""

HintRank(item) == CHOOSE i \in 1..Len(HintOrder) : HintOrder[i] = HintOf(item)

\* Object.values(taskDetails.checklist).sort(by orderHint)
SortChecklist(items) ==
    StableSortByKey(items, [x \in Range(items) |-> HintRank(x)])

\* ------------------------------------------- convert-planner-task-to-todo
PlannerTaskId == "P1"

NoOpts == [includeHeaders |-> FALSE, ifMatch |-> Nil]

\* A request as the log records it; value is Nil unless a handler reads the
\* value of the parsed payload.
Call(method, path, opts, body, outcome) ==
    [method |-> method, path |-> path, opts |-> opts, body |-> body,
     filter |-> Nil, outcome |-> outcome, value |-> Nil]

\* GET /me/todo/lists; value is Some(listsData.value) when the text parsed.
ListsCall(outcome, value) ==
    [method |-> "GET", path |-> <<"me/todo/lists">>, opts |-> NoOpts, body |-> Nil,
     filter |-> Nil, outcome |-> outcome, value |-> value]

\* The catch of the handler: an envelope with the error flag.
ConversionFailed(message) ==
    [isError |-> TRUE,
     result |-> [success |-> FALSE, error |-> "Conversion failed: " \o message]]

\* Variant: the total counts the created items only.
ChecklistSummary_TotalOfCreated(results) ==
    LET created == Cardinality({i \in 1..Len(results) : results[i].success})
    IN IF created > 0
       THEN [text |-> "created", created |-> created, total |-> created]
       ELSE [text |-> "none", created |-> 0, total |-> 0]

\* checklistTotal > 0 ? `${checklistCreated}/${checklistTotal} created` : 'none'
ChecklistSummary(results) ==
    LET created == Cardinality({i \in 1..Len(results) : results[i].success})
        total == Len(results)
    IN IF total > 0
       THEN [text |-> "created", created |-> created, total |-> total]
       ELSE [text |-> "none", created |-> 0, total |-> 0]

\* Variant: a failed completion marking fails the conversion.
ConversionResult_StrictDisposition(task, created, list, results, status) ==
    IF status = "failed_to_complete"
    THEN ConversionFailed("Failed to mark Planner task complete")
    ELSE [isError |-> FALSE,
          result |-> [success |-> TRUE,
                      message |-> "Converted Planner task to To-Do task",
                      todoTask |-> [id |-> created.id, title |-> created.title,
                                    listId |-> list,
                                    checklistItems |-> ChecklistSummary(results)],
                      plannerTask |-> [id |-> task.id, title |-> task.title,
                                       status |-> status]]]

\* The envelope the handler returns when it reaches its end.
ConversionResult(task, created, list, results, status) ==
    [isError |-> FALSE,
     result |-> [success |-> TRUE,
                 message |-> "Converted Planner task to To-Do task",
                 todoTask |-> [id |-> created.id, title |-> created.title,
                               listId |-> list,
                               checklistItems |-> ChecklistSummary(results)],
                 plannerTask |-> [id |-> task.id, title |-> task.title,
                                  status |-> status]]]

ConvertParams ==
    {[tool |-> "convert", plannerTaskId |-> PlannerTaskId, todoTaskListId |-> l,
      markPlannerComplete |-> m, addPlannerPrefix |-> a] :
        l \in {Nil, Some(""), Some("L9")}, m \in BOOLEAN, a \in BOOLEAN}

InvokeConvert ==
    /\ pc = "idle"
    /\ \E p \in ConvertParams : params' = p
    /\ pc' = "getPlannerTask"
    /\ UNCHANGED genVars
    /\ UNCHANGED <<calls, response, convVars, findVars>>

\* 1. Get the Planner task
GetPlannerTask ==
    /\ pc = "getPlannerTask"
    /\ \/ \E f \in Failures :
            /\ calls' = Append(calls, Call("GET", <<"planner/tasks", params.plannerTaskId>>,
                                           NoOpts, Nil, f))
            /\ response' = Some(ConversionFailed(ErrorMessage(f)))
            /\ pc' = "done"
            /\ UNCHANGED plannerTask
       \/ \E t \in PlannerTasks :
            /\ calls' = Append(calls, Call("GET", <<"planner/tasks", params.plannerTaskId>>,
                                           NoOpts, Nil, "ok"))
            /\ plannerTask' = Some(t)
            /\ pc' = "getTaskDetails"
            /\ UNCHANGED response
    /\ UNCHANGED genVars
    /\ UNCHANGED <<params, taskDetails, listId, createdTodoTask, sortedItems,
                   checklistResults, plannerStatus, etag, findVars>>

\* 3. The given list id is used when it is truthy; the handler stands
\* before its next request.
AfterDetails ==
    /\ IF TruthyStr(params.todoTaskListId)
       THEN listId' = params.todoTaskListId /\ pc' = "createTodoTask"
       ELSE listId' = Nil /\ pc' = "getDefaultList"
    /\ UNCHANGED response

DetailsCall(outcome) ==
    Call("GET", <<"planner/tasks", params.plannerTaskId, "details">>, NoOpts, Nil,
         outcome)

\* Variant: the details fetch is not caught on its own and ends the conversion.
DetailsFailed_Abort(f) ==
    /\ calls' = Append(calls, DetailsCall(f))
    /\ taskDetails' = Nil
    /\ response' = Some(ConversionFailed(ErrorMessage(f)))
    /\ pc' = "done"
    /\ UNCHANGED listId

\* The catch of the details fetch: a warning, taskDetails stays null
DetailsFailed(f) ==
    /\ calls' = Append(calls, DetailsCall(f))
    /\ taskDetails' = Nil
    /\ AfterDetails

\* 2. Get task details
GetTaskDetails ==
    /\ pc = "getTaskDetails"
    /\ \/ \E f \in Failures : DetailsFailed(f)
       \/ \E d \in PlannerTaskDetailsSet :
            /\ calls' = Append(calls, DetailsCall("ok"))
            /\ taskDetails' = Some(d)
            /\ AfterDetails
    /\ UNCHANGED genVars
    /\ UNCHANGED <<params, plannerTask, createdTodoTask, sortedItems,
                   checklistResults, plannerStatus, etag, findVars>>

\* Variant: without a flagged list the first list is taken.
FindDefaultList_FirstAsFallback(value) ==
    IF value = Nil \/ value[1] = <<>> THEN Nil
    ELSE LET hits == {i \in 1..Len(value[1]) :
                         value[1][i].wellknownListName = "defaultList"}
         IN IF hits = {} THEN Some(value[1][1])
            ELSE Some(value[1][CHOOSE i \in hits : \A j \in hits : i <= j])

\* listsData.value?.find(l => l.wellknownListName === 'defaultList')
FindDefaultList(value) ==
    IF value = Nil THEN Nil
    ELSE LET hits == {i \in 1..Len(value[1]) :
                         value[1][i].wellknownListName = "defaultList"}
         IN IF hits = {} THEN Nil
            ELSE Some(value[1][CHOOSE i \in hits : \A j \in hits : i <= j])

\* 3. Get the target To-Do list
GetDefaultList ==
    /\ pc = "getDefaultList"
    /\ \/ \E f \in Failures :
            /\ calls' = Append(calls, ListsCall(f, Nil))
            /\ response' = Some(ConversionFailed(ErrorMessage(f)))
            /\ pc' = "done"
            /\ UNCHANGED listId
       \/ \E v \in DefaultListPayloads :
            /\ calls' = Append(calls, ListsCall("ok", Some(v)))
            /\ LET tasksList == FindDefaultList(v)
               IN IF tasksList = Nil
                  THEN /\ response' =
                            Some(ConversionFailed("Could not find default Tasks list"))
                       /\ pc' = "done"
                       /\ UNCHANGED listId
                  ELSE /\ listId' = Some(tasksList[1].id)
                       /\ pc' = "createTodoTask"
                       /\ UNCHANGED response
    /\ UNCHANGED genVars
    /\ UNCHANGED <<params, plannerTask, taskDetails, createdTodoTask, sortedItems,
                   checklistResults, plannerStatus, etag, findVars>>

\* 6. Handle Planner task disposition, entered with the checklist results;
\* without markPlannerComplete the handler runs to its end at once.
Disposition(created, results) ==
    /\ plannerStatus' = "unchanged"
    /\ IF params.markPlannerComplete # FALSE
       THEN /\ pc' = "refetchPlannerTask"
            /\ UNCHANGED response
       ELSE /\ pc' = "done"
            /\ response' = Some(ConversionResult(plannerTask[1], created, listId[1],
                                                 results, "unchanged"))

\* 4. Map fields and create To-Do task; 5. sort the checklist items
CreateTodoTask ==
    /\ pc = "createTodoTask"
    /\ LET todoBody == mapPlannerToTodo(plannerTask[1], taskDetails,
                                        params.addPlannerPrefix # FALSE)
           path == <<"me/todo/lists", listId[1], "tasks">>
       IN \/ \E f \in Failures :
               /\ calls' = Append(calls, Call("POST", path, NoOpts, Some(todoBody), f))
               /\ response' = Some(ConversionFailed(ErrorMessage(f)))
               /\ pc' = "done"
               /\ UNCHANGED <<createdTodoTask, sortedItems, plannerStatus>>
          \/ LET created == [id |-> "T1", title |-> todoBody.title]
                 items == IF taskDetails # Nil /\ taskDetails[1].checklist # Nil
                          THEN SortChecklist(taskDetails[1].checklist[1])
                          ELSE <<>>
             IN /\ calls' = Append(calls, Call("POST", path, NoOpts, Some(todoBody), "ok"))
                /\ createdTodoTask' = Some(created)
                /\ sortedItems' = items
                /\ IF items # <<>>
                   THEN /\ pc' = "createChecklistItem"
                        /\ UNCHANGED <<response, plannerStatus>>
                   ELSE Disposition(created, <<>>)
    /\ UNCHANGED genVars
    /\ UNCHANGED <<params, plannerTask, taskDetails, listId, checklistResults, etag,
                   findVars>>

\* 5. One iteration of the checklist loop: the attempt and its recorded result
CreateChecklistItem ==
    /\ pc = "createChecklistItem"
    /\ LET item == sortedItems[Len(checklistResults) + 1]
           path == <<"me/todo/lists", listId[1], "tasks", createdTodoTask[1].id,
                     "checklistItems">>
           body == [displayName |-> item.title, isChecked |-> item.isChecked]
       IN \E outcome \in {"ok", "throw"} :
            LET results == Append(checklistResults,
                                  [displayName |-> item.title,
                                   isChecked |-> item.isChecked,
                                   success |-> (outcome = "ok")])
            IN /\ calls' = Append(calls, Call("POST", path, NoOpts, Some(body), outcome))
               /\ checklistResults' = results
               /\ IF Len(results) < Len(sortedItems)
                  THEN UNCHANGED <<pc, response, plannerStatus>>
                  ELSE Disposition(createdTodoTask[1], results)
    /\ UNCHANGED genVars
    /\ UNCHANGED <<params, plannerTask, taskDetails, listId, createdTodoTask,
                   sortedItems, etag, findVars>>

\* Variant: the update is never guarded by the fetched token.
EtagOf_AlwaysWildcard(e) == "*"

\* taskData._etag || '*'
EtagOf(e) == IF TruthyStr(e) THEN e[1] ELSE "*"

\* 6. Fetch the source task again for its ETag
RefetchPlannerTask ==
    /\ pc = "refetchPlannerTask"
    /\ LET path == <<"planner/tasks", params.plannerTaskId>>
           opts == [includeHeaders |-> TRUE, ifMatch |-> Nil]
       IN \/ \E f \in Failures :
               /\ calls' = Append(calls, Call("GET", path, opts, Nil, f))
               /\ plannerStatus' = "failed_to_complete"
               /\ response' = Some(ConversionResult(plannerTask[1], createdTodoTask[1],
                                                    listId[1], checklistResults,
                                                    "failed_to_complete"))
               /\ pc' = "done"
               /\ UNCHANGED etag
          \/ \E e \in Etags :
               /\ calls' = Append(calls, [Call("GET", path, opts, Nil, "ok")
                                           EXCEPT !.value = Some(e)])
               /\ etag' = EtagOf(e)
               /\ pc' = "patchPlannerTask"
               /\ UNCHANGED <<plannerStatus, response>>
    /\ UNCHANGED genVars
    /\ UNCHANGED <<params, plannerTask, taskDetails, listId, createdTodoTask,
                   sortedItems, checklistResults, findVars>>

\* 6. The conditional update to 100% and the end of the handler
PatchPlannerTask ==
    /\ pc = "patchPlannerTask"
    /\ \E outcome \in {"ok", "throw"} :
         LET status == IF outcome = "ok" THEN "completed" ELSE "failed_to_complete"
         IN /\ calls' = Append(calls,
                               Call("PATCH", <<"planner/tasks", params.plannerTaskId>>,
                                    [includeHeaders |-> FALSE, ifMatch |-> Some(etag)],
                                    Some([percentComplete |-> 100]), outcome))
            /\ plannerStatus' = status
            /\ response' = Some(ConversionResult(plannerTask[1], createdTodoTask[1],
                                                 listId[1], checklistResults, status))
            /\ pc' = "done"
    /\ UNCHANGED genVars
    /\ UNCHANGED <<params, plannerTask, taskDetails, listId, createdTodoTask,
                   sortedItems, checklistResults, etag, findVars>>

\* --------------------------------------------------------- find-todo-task
TitleTappedHole ==
    <<"#", "E", "N", "G", " ", "#", "B", "u", "i", "l", "d", "P", "a", "r",
      "t", " ", "-", " ", "T", "a", "p", "p", "e", "d", " ", "H", "o", "l",
      "e">>
TitleIts ==
    <<"i", "t", "'", "s">>
TitleItsCapital ==
    <<"I", "t", "'", "s">>
TitleShortWords ==
    <<"#", "E", "N", "G", " ", "t", "o", " ", "d", "o", " ", "i", "t", " ",
      "o", "n", " ", "a", "n", " ", "o", "x">>

\* \w and \s of the regular expressions
WordChars ==
    {"A", "B", "C", "D", "E", "F", "G", "H", "I", "J", "K", "L", "M",
     "N", "O", "P", "Q", "R", "S", "T", "U", "V", "W", "X", "Y", "Z",
     "a", "b", "c", "d", "e", "f", "g", "h", "i", "j", "k", "l", "m",
     "n", "o", "p", "q", "r", "s", "t", "u", "v", "w", "x", "y", "z",
     "0", "1", "2", "3", "4", "5", "6", "7", "8", "9", "_"}

WhiteSpace == {" ", "\t", "\n"}

RECURSIVE DropWhile(_, _)
DropWhile(str, S) ==
    IF str # <<>> /\ Head(str) \in S THEN DropWhile(Tail(str), S) ELSE str

RECURSIVE TakeWhile(_, _)
TakeWhile(str, S) ==
    IF str # <<>> /\ Head(str) \in S
    THEN <<Head(str)>> \o TakeWhile(Tail(str), S)
    ELSE <<>>

Reverse(str) == [i \in 1..Len(str) |-> str[Len(str) + 1 - i]]

\* Variant: only the hash sign is removed, the tag word stays.
RemoveHashtags_KeepWord(str) == SelectSeq(str, LAMBDA ch : ch # "#")

\* .replace(/#\w+/g, '')
RECURSIVE RemoveHashtags(_)
RemoveHashtags(str) ==
    IF str = <<>> THEN <<>>
    ELSE IF Head(str) = "#" /\ Len(str) >= 2 /\ str[2] \in WordChars
         THEN RemoveHashtags(DropWhile(Tail(str), WordChars))
         ELSE <<Head(str)>> \o RemoveHashtags(Tail(str))

\* .replace(/[^\w\s]/g, ' ')
RemoveSpecialChars(str) ==
    [i \in 1..Len(str) |->
        IF str[i] \in WordChars \cup WhiteSpace THEN str[i] ELSE " "]

\* .trim()
Trim(str) == Reverse(DropWhile(Reverse(DropWhile(str, WhiteSpace)), WhiteSpace))

\* .split(/\s+/)
RECURSIVE SplitWhiteSpace(_)
SplitWhiteSpace(str) ==
    LET NonSpace == {str[i] : i \in 1..Len(str)} \ WhiteSpace
        word == TakeWhile(str, NonSpace)
        rest == SubSeq(str, Len(word) + 1, Len(str))
    IN IF rest = <<>> THEN <<word>>
       ELSE <<word>> \o SplitWhiteSpace(DropWhile(rest, WhiteSpace))

\* .find(word => word.length > 3): Nil when no word qualifies
FindLongWord(words) ==
    LET hits == {i \in 1..Len(words) : Len(words[i]) > 3}
    IN IF hits = {} THEN Nil
       ELSE Some(words[CHOOSE i \in hits : \A j \in hits : i <= j])

\* title.slice(0, 20)
Slice20(str) == SubSeq(str, 1, IF Len(str) < 20 THEN Len(str) ELSE 20)

ExtractKeyword(title) ==
    LET word == FindLongWord(SplitWhiteSpace(Trim(RemoveSpecialChars(
                                                      RemoveHashtags(title)))))
    IN IF word # Nil THEN word[1] ELSE Slice20(title)

\* searchKeyword.replace(/'/g, "''")
RECURSIVE EscapeQuotes(_)
EscapeQuotes(str) ==
    IF str = <<>> THEN <<>>
    ELSE (IF Head(str) = "'" THEN <<"'", "'">> ELSE <<Head(str)>>)
         \o EscapeQuotes(Tail(str))

\* `${statusFilter}contains(title, '${...}')`
Filter(keyword, includeCompleted) ==
    [excludeCompleted |-> ~includeCompleted, contains |-> EscapeQuotes(keyword)]

\* String.prototype.includes
Includes(str, sub) ==
    \E i \in 0..(Len(str) - Len(sub)) : SubSeq(str, i + 1, i + Len(sub)) = sub

priorityOrder ==
    <<<<"R", "O", "I">>,
      <<"G", "o", "a", "l", " ", "P", "h", "a", "s", "e">>,
      <<"A", "d", "-", "H", "o", "c">>,
      <<"T", "a", "s", "k", "s">>>>

Unmatched == 999

\* Variant: the index -1 of an unmatched name is used as the score.
Score_UnmatchedFirst(list) ==
    LET hits == {i \in 1..Len(priorityOrder) :
                    Includes(list.displayName, priorityOrder[i])}
    IN IF hits = {} THEN -1
       ELSE (CHOOSE i \in hits : \A j \in hits : i <= j) - 1

\* findIndex(p => displayName.includes(p)), zero-based; 999 when it is -1
Score(list) ==
    LET hits == {i \in 1..Len(priorityOrder) :
                    Includes(list.displayName, priorityOrder[i])}
    IN IF hits = {} THEN Unmatched
       ELSE (CHOOSE i \in hits : \A j \in hits : i <= j) - 1

\* listsData.value.sort((a, b) => aScore - bScore)
SortLists(lists) == StableSortByKey(lists, [l \in Range(lists) |-> Score(l)])

\* Tasks the remote may return for a query: one with the requested title and
\* one whose title differs from "it's" in case only.
TaskPool(title) ==
    {[id |-> "t1", title |-> title, status |-> "notStarted",
      importance |-> "high", dueDateTime |-> Some("2026-03-01T00:00:00Z"),
      body |-> "drill first"],
     [id |-> "t2", title |-> TitleItsCapital, status |-> "inProgress",
      importance |-> "normal", dueDateTime |-> Nil, body |-> ""]}

\* data.value of a query: Nil when it is missing or not an array, else the
\* tasks in any order.
TasksPayloads(title) ==
    {Nil} \cup {Some(q) : q \in UniqueSeqs(TaskPool(title), Cardinality(TaskPool(title)))}

FindParams ==
    {[tool |-> "find", title |-> t, todoTaskListId |-> l, includeCompleted |-> FALSE] :
        t \in {TitleTappedHole, TitleIts, TitleShortWords},
        l \in {Nil, Some(""), Some("L3")}}
    \cup {[tool |-> "find", title |-> TitleIts, todoTaskListId |-> l,
           includeCompleted |-> TRUE] : l \in {Nil, Some("L3")}}

\* The outer catch of the handler.
FindFailed(message) ==
    [isError |-> TRUE, result |-> [success |-> FALSE, error |-> "Find failed: " \o message]]

\* Variant: the projection forgets the list the task was found in.
Lightweight_NoListId(m) ==
    [listId |-> "", id |-> m.task.id, title |-> m.task.title,
     status |-> m.task.status, importance |-> m.task.importance,
     dueDateTime |-> m.task.dueDateTime]

\* The lightweight projection of a FoundTask.
Lightweight(m) ==
    [listId |-> m.listId, id |-> m.task.id, title |-> m.task.title,
     status |-> m.task.status, importance |-> m.task.importance,
     dueDateTime |-> m.task.dueDateTime]

NoTask == [id |-> "", title |-> <<>>, status |-> "", importance |-> "",
           dueDateTime |-> Nil, body |-> ""]

\* Return results: exact, partial or none
FindResult(exact, matches, keyword) ==
    IF exact # Nil
    THEN [isError |-> FALSE,
          result |-> [success |-> TRUE, matchType |-> "exact", task |-> exact[1].task,
                      listId |-> exact[1].listId, matches |-> <<>>,
                      searchKeyword |-> Nil]]
    ELSE IF Len(matches) > 0
    THEN [isError |-> FALSE,
          result |-> [success |-> TRUE, matchType |-> "partial", task |-> NoTask,
                      listId |-> "",
                      matches |-> [i \in 1..Len(matches) |-> Lightweight(matches[i])],
                      searchKeyword |-> Nil]]
    ELSE [isError |-> FALSE,
          result |-> [success |-> FALSE, matchType |-> "none", task |-> NoTask,
                      listId |-> "", matches |-> <<>>,
                      searchKeyword |-> Some(keyword)]]

\* A query of one list with the $filter; value is Some(data.value) when the
\* text parsed.
Query(list, filter, outcome, value) ==
    [method |-> "GET", path |-> <<"me/todo/lists", list, "tasks">>, opts |-> NoOpts,
     body |-> Nil, filter |-> Some(filter), outcome |-> outcome, value |-> value]

\* Variant: the loop does not leave on an exact match.
Continue_NoShortCircuit(lists, visited, exact, matches, keyword) ==
    IF visited < Len(lists)
    THEN pc' = "searchList" /\ UNCHANGED response
    ELSE /\ pc' = "done"
         /\ response' = Some(FindResult(exact, matches, keyword))

\* The search loop stands before list number visited + 1, or has ended.
Continue(lists, visited, exact, matches, keyword) ==
    IF exact = Nil /\ visited < Len(lists)
    THEN pc' = "searchList" /\ UNCHANGED response
    ELSE /\ pc' = "done"
         /\ response' = Some(FindResult(exact, matches, keyword))

\* With an explicit list id the handler runs up to its first query.
InvokeFind ==
    /\ pc = "idle"
    /\ \E p \in FindParams :
         /\ params' = p
         /\ IF TruthyStr(p.todoTaskListId)
            THEN /\ listsToSearch' = <<p.todoTaskListId[1]>>
                 /\ searchKeyword' = ExtractKeyword(p.title)
                 /\ pc' = "searchList"
            ELSE /\ pc' = "getLists"
                 /\ UNCHANGED <<listsToSearch, searchKeyword>>
    /\ UNCHANGED genVars
    /\ UNCHANGED <<calls, response, searched, allMatches, exactMatch, convVars>>

\* Get all lists, order them, derive the keyword
GetLists ==
    /\ pc = "getLists"
    /\ \/ \E f \in Failures :
            /\ calls' = Append(calls, ListsCall(f, Nil))
            /\ response' = Some(FindFailed(ErrorMessage(f)))
            /\ pc' = "done"
            /\ UNCHANGED <<listsToSearch, searchKeyword>>
       \/ \E v \in ListsPayloads :
            /\ calls' = Append(calls, ListsCall("ok", Some(v)))
            /\ IF v = Nil
               THEN /\ response' = Some(FindFailed("Cannot read properties of undefined"))
                    /\ pc' = "done"
                    /\ UNCHANGED <<listsToSearch, searchKeyword>>
               ELSE LET sortedLists == SortLists(v[1])
                        ids == [i \in 1..Len(sortedLists) |-> sortedLists[i].id]
                        keyword == ExtractKeyword(params.title)
                    IN /\ listsToSearch' = ids
                       /\ searchKeyword' = keyword
                       /\ Continue(ids, 0, Nil, <<>>, keyword)
    /\ UNCHANGED genVars
    /\ UNCHANGED <<params, searched, allMatches, exactMatch, convVars>>

\* The inner loop over data.value: push each task, stop at the exact title
RECURSIVE Collect(_, _, _, _)
Collect(tasks, list, title, matches) ==
    IF tasks = <<>> THEN [matches |-> matches, exact |-> Nil]
    ELSE LET foundTask == [task |-> Head(tasks), listId |-> list]
         IN IF Head(tasks).title = title
            THEN [matches |-> Append(matches, foundTask), exact |-> Some(foundTask)]
            ELSE Collect(Tail(tasks), list, title, Append(matches, foundTask))

\* Variant: a failing query is not caught per list and ends the search.
QueryFailed_Abort(list, filter, f) ==
    /\ calls' = Append(calls, Query(list, filter, f, Nil))
    /\ UNCHANGED <<allMatches, exactMatch>>
    /\ pc' = "done"
    /\ response' = Some(FindFailed(ErrorMessage(f)))

\* The catch of one iteration: the list is skipped
QueryFailed(list, filter, f) ==
    /\ calls' = Append(calls, Query(list, filter, f, Nil))
    /\ UNCHANGED <<allMatches, exactMatch>>
    /\ Continue(listsToSearch, searched + 1, exactMatch, allMatches, searchKeyword)

\* One iteration of the search loop, and the result when the loop ends
SearchList ==
    /\ pc = "searchList"
    /\ LET list == listsToSearch[searched + 1]
           filter == Filter(searchKeyword, params.includeCompleted)
       IN \/ \E f \in Failures : QueryFailed(list, filter, f)
          \/ \E v \in TasksPayloads(params.title) :
               LET found == IF v = Nil THEN [matches |-> allMatches, exact |-> Nil]
                            ELSE Collect(v[1], list, params.title, allMatches)
               IN /\ calls' = Append(calls, Query(list, filter, "ok", Some(v)))
                  /\ allMatches' = found.matches
                  /\ exactMatch' = found.exact
                  /\ Continue(listsToSearch, searched + 1, found.exact,
                              found.matches, searchKeyword)
    /\ searched' = searched + 1
    /\ UNCHANGED genVars
    /\ UNCHANGED <<params, listsToSearch, searchKeyword, convVars>>


\* ------------------------------------------------------ client generator
\* generateMcpTools(openApiSpec, outputDir) of src/unnamed/part_000.  The
\* generated source is a sequence of tokens, one per piece of text that the
\* regular expressions of the post-processing tell apart.

MaxSchemas == 2
MaxEndpoints == 2

\* import ... from '@zodios/core';   and the same import after the redirect
ImportZodios == "'@zodios/core';"
ImportHack == "'./hack.js';"

\* const microsoft_graph_<name> = z .object({
ConstOf(name) == "const microsoft_graph_" \o name \o " = z .object({"

Attachment == "attachment"
PlannerAssignments == "plannerAssignments"
SchemaNames == {Attachment, PlannerAssignments, "message"}

\* the fields of a schema definition, and its two possible ends
Fields == "fields"
CloseStrict == "}) .strict();"
ClosePassthrough == "}) .passthrough();"

\* an endpoint definition: { ..., errors: [...] }
EndpointOpen == "{ method, path, response"
Errors == ", errors: [...]"
EndpointClose == "}"

SeqsUpTo(S, n) == UNION {[1..k -> S] : k \in 0..n}

RECURSIVE Flatten(_)
Flatten(seqs) ==
    IF seqs = <<>> THEN <<>> ELSE Head(seqs) \o Flatten(Tail(seqs))

SchemaDefinitions ==
    {<<ConstOf(n), Fields, c>> : n \in SchemaNames,
                                 c \in {CloseStrict, ClosePassthrough}}

EndpointDefinitions ==
    {<<EndpointOpen, Errors, EndpointClose>>, <<EndpointOpen, EndpointClose>>}

\* The texts the external tool can write to client.ts.
GeneratedTexts ==
    {h \o Flatten(d) \o Flatten(e) :
        h \in {<<>>, <<ImportZodios>>, <<ImportZodios, ImportZodios>>},
        d \in SeqsUpTo(SchemaDefinitions, MaxSchemas),
        e \in SeqsUpTo(EndpointDefinitions, MaxEndpoints)}

\* A client.ts left by an earlier run.
StaleClient == <<ImportHack, EndpointOpen, EndpointClose>>

\* The output directory before the run: absent, empty, or holding client.ts.
InitialDisks ==
    {[dir |-> FALSE, client |-> Nil],
     [dir |-> TRUE, client |-> Nil],
     [dir |-> TRUE, client |-> Some(StaleClient)]}

\* The first place at or after `from` that holds the token, 0 when none does.
FirstAt(text, token, from) ==
    LET S == {i \in from..Len(text) : text[i] = token}
    IN  IF S = {} THEN 0 ELSE CHOOSE i \in S : \A j \in S : i <= j

\* clientCode.replace(/'@zodios\/core';/, "'./hack.js';"): first match only.
RedirectImport(text) ==
    LET i == FirstAt(text, ImportZodios, 1)
    IN  IF i = 0 THEN text ELSE [text EXCEPT ![i] = ImportHack]

\* Variant: relaxes the first strict definition whatever its name.
RelaxSchema_AnyStrict(text, name) ==
    LET j == FirstAt(text, CloseStrict, 1)
    IN  IF j = 0 THEN text ELSE [text EXCEPT ![j] = ClosePassthrough]

\* clientCode.replace(/const microsoft_graph_<name> = z\s+\.object\({[\s\S]*?}\)
\* \s+\.strict\(\);/, match => match.replace(/\.strict\(\);/, '.passthrough();')):
\* the match starts at the first definition of the name and, being lazy, ends
\* at the first strict end after it, which need not be the end of that
\* definition.
RelaxSchema(text, name) ==
    LET i == FirstAt(text, ConstOf(name), 1)
        j == IF i = 0 THEN 0 ELSE FirstAt(text, CloseStrict, i + 1)
    IN  IF j = 0 THEN text ELSE [text EXCEPT ![j] = ClosePassthrough]

\* clientCode.replace(/,?\s*errors:\s*\[[\s\S]*?],?(?=\s*})/g, ''): every match.
StripErrors(text) == SelectSeq(text, LAMBDA token : token # Errors)

PostProcess(text) ==
    StripErrors(RelaxSchema(RelaxSchema(RedirectImport(text), Attachment),
                            PlannerAssignments))

SysCall(op, outcome, message) ==
    [op |-> op, outcome |-> outcome, message |-> message]

\* Variant: the caught error is thrown again as it is.
GenerationError_Rethrow(message) == message

\* new Error(`Error generating client code: ${error.message}`)
GenerationError(message) == "Error generating client code: " \o message

\* catch (error) { throw new Error(...) }
GenerationFailed(op, message) ==
    /\ sys' = Append(sys, SysCall(op, "throw", message))
    /\ result' = Some([threw |-> TRUE, message |-> GenerationError(message)])
    /\ gpc' = "done"

\* if (!fs.existsSync(outputDir)) fs.mkdirSync(outputDir, { recursive: true })
EnsureOutputDir ==
    /\ gpc = "mkdir"
    /\ IF disk.dir
       THEN /\ gpc' = "exec"
            /\ UNCHANGED <<disk, sys, result>>
       ELSE \/ /\ disk' = [disk EXCEPT !.dir = TRUE]
               /\ sys' = Append(sys, SysCall("mkdirSync", "ok", ""))
               /\ gpc' = "exec"
               /\ UNCHANGED result
            \/ /\ GenerationFailed("mkdirSync", "EACCES: permission denied, mkdir")
               /\ UNCHANGED disk
    /\ UNCHANGED <<generated, clientCode>>
    /\ UNCHANGED toolVars

\* execSync(`npx -y openapi-zod-client ... -o "${clientFilePath}" ...`)
RunGenerator ==
    /\ gpc = "exec"
    /\ \/ \E text \in GeneratedTexts :
              /\ disk' = [disk EXCEPT !.client = Some(text)]
              /\ generated' = Some(text)
              /\ sys' = Append(sys, SysCall("execSync", "ok", ""))
              /\ gpc' = "read"
              /\ UNCHANGED result
       \/ /\ GenerationFailed("execSync", "Command failed: npx -y openapi-zod-client")
          /\ UNCHANGED <<disk, generated>>
    /\ UNCHANGED clientCode
    /\ UNCHANGED toolVars

\* let clientCode = fs.readFileSync(clientFilePath, 'utf-8') and the four
\* replacements of clientCode
ReadClient ==
    /\ gpc = "read"
    /\ \/ /\ disk.client # Nil
          /\ clientCode' = PostProcess(disk.client[1])
          /\ sys' = Append(sys, SysCall("readFileSync", "ok", ""))
          /\ gpc' = "write"
          /\ UNCHANGED result
       \/ /\ GenerationFailed("readFileSync", "EACCES: permission denied, open")
          /\ UNCHANGED clientCode
    /\ UNCHANGED <<disk, generated>>
    /\ UNCHANGED toolVars

\* fs.writeFileSync(clientFilePath, clientCode); return true.  A write that
\* fails on opening leaves the file as it was, one that fails after the file
\* was opened leaves it empty.
WriteClient ==
    /\ gpc = "write"
    /\ \/ /\ disk' = [disk EXCEPT !.client = Some(clientCode)]
          /\ sys' = Append(sys, SysCall("writeFileSync", "ok", ""))
          /\ result' = Some([threw |-> FALSE, message |-> ""])
          /\ gpc' = "done"
       \/ /\ GenerationFailed("writeFileSync", "EACCES: permission denied, open")
          /\ UNCHANGED disk
       \/ /\ GenerationFailed("writeFileSync", "ENOSPC: no space left on device, write")
          /\ disk' = [disk EXCEPT !.client = Some(<<>>)]
    /\ UNCHANGED <<generated, clientCode>>
    /\ UNCHANGED toolVars


\* ------------------------------------------------------------ the system
Init ==
    /\ pc = "idle"
    /\ params = [tool |-> "none"]
    /\ calls = <<>>
    /\ response = Nil
    /\ plannerTask = Nil
    /\ taskDetails = Nil
    /\ listId = Nil
    /\ createdTodoTask = Nil
    /\ sortedItems = <<>>
    /\ checklistResults = <<>>
    /\ plannerStatus = ""
    /\ etag = ""
    /\ listsToSearch = <<>>
    /\ searchKeyword = <<>>
    /\ searched = 0
    /\ allMatches = <<>>
    /\ exactMatch = Nil
    /\ gpc = "idle"
    /\ disk = [dir |-> TRUE, client |-> <<>>]
    /\ sys = <<>>
    /\ generated = <<>>
    /\ clientCode = <<>>
    /\ result = <<>>

Next ==
    \/ InvokeConvert
    \/ GetPlannerTask
    \/ GetTaskDetails
    \/ GetDefaultList
    \/ CreateTodoTask
    \/ CreateChecklistItem
    \/ RefetchPlannerTask
    \/ PatchPlannerTask
    \/ InvokeFind
    \/ GetLists
    \/ SearchList

Spec == Init /\ [][Next]_vars

\* The generator is a build-time script of its own: it starts with the output
\* directory in one of its possible states and no tool handler running.
GenInit ==
    /\ pc = "idle"
    /\ params = [tool |-> "none"]
    /\ calls = <<>>
    /\ response = Nil
    /\ plannerTask = Nil
    /\ taskDetails = Nil
    /\ listId = Nil
    /\ createdTodoTask = Nil
    /\ sortedItems = <<>>
    /\ checklistResults = <<>>
    /\ plannerStatus = ""
    /\ etag = ""
    /\ listsToSearch = <<>>
    /\ searchKeyword = <<>>
    /\ searched = 0
    /\ allMatches = <<>>
    /\ exactMatch = Nil
    /\ gpc = "mkdir"
    /\ disk \in InitialDisks
    /\ sys = <<>>
    /\ generated = Nil
    /\ clientCode = <<>>
    /\ result = Nil

GenNext ==
    \/ EnsureOutputDir
    \/ RunGenerator
    \/ ReadClient
    \/ WriteClient

GenSpec == GenInit /\ [][GenNext]_vars

\* =================================================================== claims
\* Recognisers of the requests in the log.
IsSourceFetch(c) ==
    c.method = "GET" /\ c.path = <<"planner/tasks", PlannerTaskId>>
    /\ ~c.opts.includeHeaders

IsRefetch(c) ==
    c.method = "GET" /\ c.path = <<"planner/tasks", PlannerTaskId>>
    /\ c.opts.includeHeaders

IsListsCall(c) == c.method = "GET" /\ c.path = <<"me/todo/lists">>

IsCreateCall(c) == c.method = "POST" /\ Len(c.path) = 3 /\ c.path[3] = "tasks"

IsChecklistCall(c) ==
    c.method = "POST" /\ Len(c.path) = 5 /\ c.path[5] = "checklistItems"

IsPatch(c) == c.method = "PATCH"

IsQuery(c) == c.method = "GET" /\ Len(c.path) = 3 /\ c.path[3] = "tasks"

Positions(P(_)) == {i \in 1..Len(calls) : P(calls[i])}

Succeeded(c) == c.outcome = "ok"

Converting == params.tool = "convert"

\* The destination task exists: the creation request was answered and parsed.
Created == \E i \in Positions(IsCreateCall) : Succeeded(calls[i])

ChecklistAttempts == Positions(IsChecklistCall)

ChecklistCreated == {i \in ChecklistAttempts : Succeeded(calls[i])}

Dispositions == {"unchanged", "completed", "failed_to_complete"}

\* C1: once the creation of the destination task has succeeded, the returned
\* envelope has no error flag and success = true whatever the checklist
\* attempts and the completion marking did, and it carries the checklist
\* count and the source disposition.
C1_SuccessOnceCreated ==
    (Converting /\ Created /\ response # Nil) =>
        /\ ~response[1].isError
        /\ response[1].result.success = TRUE
        /\ response[1].result.todoTask.checklistItems.created
               = Cardinality(ChecklistCreated)
        /\ response[1].result.todoTask.checklistItems.text \in {"created", "none"}
        /\ response[1].result.plannerTask.status \in Dispositions

\* A conversion that returned after a failed checklist attempt and a failed
\* completion marking.
C1_Witness ==
    /\ Converting /\ Created /\ response # Nil
    /\ \E i \in ChecklistAttempts : ~Succeeded(calls[i])
    /\ \E i \in Positions(IsPatch) : ~Succeeded(calls[i])
    /\ response[1].result.success = TRUE

\* The payload of a lists request names no default list.
NoDefaultIn(c) ==
    /\ IsListsCall(c) /\ Succeeded(c)
    /\ \/ c.value[1] = Nil
       \/ \A k \in 1..Len(c.value[1][1]) :
              c.value[1][1][k].wellknownListName # "defaultList"

CriticalFailure(c) ==
    \/ (IsSourceFetch(c) \/ IsListsCall(c) \/ IsCreateCall(c)) /\ ~Succeeded(c)
    \/ NoDefaultIn(c)

FailureMessage(c) ==
    IF Succeeded(c) THEN "Conversion failed: Could not find default Tasks list"
    ELSE IF c.outcome = "throw" THEN "Conversion failed: Graph API error"
    ELSE "Conversion failed: Unexpected end of JSON input"

\* C2: a failed source fetch, list resolution (a list response without a
\* default list included) or creation is the last request of the conversion:
\* nothing is issued after it, it is not repeated, and the handler has
\* returned the error flag, success = false and a message.
C2_CriticalFailureAborts ==
    Converting =>
        \A i \in 1..Len(calls) :
            CriticalFailure(calls[i]) =>
                /\ i = Len(calls)
                /\ pc = "done"
                /\ response # Nil
                /\ response[1].isError
                /\ response[1].result.success = FALSE
                /\ response[1].result.error = FailureMessage(calls[i])

\* A creation that failed after the default list was resolved by listing.
C2_Witness ==
    /\ Converting /\ pc = "done"
    /\ Len(calls) = 4
    /\ IsListsCall(calls[3]) /\ Succeeded(calls[3])
    /\ IsCreateCall(calls[4]) /\ ~Succeeded(calls[4])
    /\ response[1].isError

\* The checklist of the fetched details, empty when there is none.
SourceChecklist ==
    IF taskDetails # Nil /\ taskDetails[1].checklist # Nil
    THEN taskDetails[1].checklist[1] ELSE <<>>

\* C3: when the conversion returns, every one of the N checklist items of the
\* source details was attempted exactly once, failures included, the result
\* reports success = true, and for N > 0 checklistItems is "k/N created"
\* with k the number of attempts that succeeded.
C3_ChecklistPartialFailure ==
    (Converting /\ Created /\ response # Nil) =>
        LET N == Len(SourceChecklist)
        IN /\ Cardinality(ChecklistAttempts) = N
           /\ \A k \in 1..N :
                  Cardinality({i \in ChecklistAttempts :
                      calls[i].body[1] =
                          [displayName |-> SourceChecklist[k].title,
                           isChecked |-> SourceChecklist[k].isChecked]}) = 1
           /\ response[1].result.success = TRUE
           /\ N > 0 => response[1].result.todoTask.checklistItems =
                          [text |-> "created",
                           created |-> Cardinality(ChecklistCreated),
                           total |-> N]

\* The end-to-end scenario: priority 1, 100 percent, no due date, two items of
\* which the first attempt fails and the second succeeds: "1/2 created".
C3_Witness ==
    /\ Converting /\ response # Nil /\ Created
    /\ plannerTask[1].priority = 1 /\ plannerTask[1].percentComplete = 100
    /\ plannerTask[1].dueDateTime = Nil
    /\ Len(SourceChecklist) = 2
    /\ \E i, j \in ChecklistAttempts :
           i < j /\ ~Succeeded(calls[i]) /\ Succeeded(calls[j])
    /\ \E i \in Positions(IsCreateCall) :
           /\ calls[i].body[1].importance = "high"
           /\ calls[i].body[1].status = "completed"
    /\ response[1].result.success = TRUE
    /\ response[1].result.todoTask.checklistItems =
           [text |-> "created", created |-> 1, total |-> 2]

Marking == params.markPlannerComplete # FALSE

\* The token the update must carry for the refetch answered at position i.
TokenAt(i) ==
    IF calls[i].value[1] # Nil /\ calls[i].value[1][1] # ""
    THEN calls[i].value[1][1] ELSE "*"

\* Position i comes after the creation and after all N checklist attempts.
AfterCreationAndChecklist(i) ==
    /\ \E j \in Positions(IsCreateCall) : j < i /\ Succeeded(calls[j])
    /\ Cardinality({j \in ChecklistAttempts : j < i}) = Len(SourceChecklist)

\* C5: with markPlannerComplete the source task is fetched again and then
\* updated to 100 percent under If-Match with the fetched token ("*" when it
\* has none), both only after the creation and every checklist attempt; the
\* disposition is "completed" exactly when the update succeeded and
\* "failed_to_complete" when the refetch or the update failed, success
\* staying true.  Without markPlannerComplete no refetch and no update are
\* issued and the disposition is "unchanged".
C5_SourceCompletion ==
    Converting =>
        /\ \A i \in Positions(IsRefetch) : Marking /\ AfterCreationAndChecklist(i)
        /\ \A i \in Positions(IsPatch) :
               /\ Marking
               /\ i > 1 /\ IsRefetch(calls[i - 1]) /\ Succeeded(calls[i - 1])
               /\ calls[i].opts.ifMatch = Some(TokenAt(i - 1))
               /\ calls[i].body = Some([percentComplete |-> 100])
               /\ AfterCreationAndChecklist(i)
        /\ Cardinality(Positions(IsPatch)) <= 1
        /\ (Created /\ response # Nil) =>
               /\ response[1].result.success = TRUE
               /\ IF Marking
                  THEN /\ Positions(IsRefetch) # {}
                       /\ (\A i \in Positions(IsRefetch) : Succeeded(calls[i]))
                              => Positions(IsPatch) # {}
                       /\ response[1].result.plannerTask.status =
                              IF \E i \in Positions(IsPatch) : Succeeded(calls[i])
                              THEN "completed" ELSE "failed_to_complete"
                  ELSE response[1].result.plannerTask.status = "unchanged"

\* A conversion whose update carried a fetched token after two checklist
\* attempts and succeeded.
C5_Witness ==
    /\ Converting /\ response # Nil /\ Marking
    /\ Cardinality(ChecklistAttempts) = 2
    /\ \E i \in Positions(IsPatch) :
           Succeeded(calls[i]) /\ calls[i].opts.ifMatch = Some("W/1")
    /\ response[1].result.plannerTask.status = "completed"

\* The importance the table of the specification gives a priority code.
ExpectedImportance(priority) ==
    CASE priority = 1 -> "high"
      [] priority = 5 -> "normal"
      [] priority = 9 -> "low"
      [] OTHER -> "normal"

\* The handler has passed the field mapping.
Mapped == pc \in {"createChecklistItem", "refetchPlannerTask", "patchPlannerTask"}

\* C9: the creation request carries importance "high" for priority 1,
\* "normal" for 5, "low" for 9 and "normal" for every other code, and the
\* mapping never keeps the handler from issuing the creation request.
C9_PriorityMappingTotal ==
    Converting =>
        /\ \A i \in Positions(IsCreateCall) :
               calls[i].body[1].importance
                   = ExpectedImportance(plannerTask[1].priority)
        /\ Mapped => Positions(IsCreateCall) # {}

\* A task with an unmapped priority code was created with importance "normal".
C9_Witness ==
    /\ Converting
    /\ plannerTask # Nil /\ plannerTask[1].priority \notin {1, 5, 9}
    /\ \E i \in Positions(IsCreateCall) :
           Succeeded(calls[i]) /\ calls[i].body[1].importance = "normal"

\* C10: the creation request carries status "completed" if and only if the
\* completion percentage of the source task is 100, and "notStarted"
\* otherwise.
C10_StatusDerivation ==
    Converting =>
        \A i \in Positions(IsCreateCall) :
            /\ calls[i].body[1].status = "completed"
                   <=> plannerTask[1].percentComplete = 100
            /\ calls[i].body[1].status # "completed"
                   => calls[i].body[1].status = "notStarted"

\* A task at 99 percent was created with status "notStarted".
C10_Witness ==
    /\ Converting
    /\ plannerTask # Nil /\ plannerTask[1].percentComplete = 99
    /\ \E i \in Positions(IsCreateCall) :
           Succeeded(calls[i]) /\ calls[i].body[1].status = "notStarted"

Finding == params.tool = "find"

Queries == Positions(IsQuery)

\* The tasks of the answer logged at position i, none when the value is not
\* an array.
AnswerAt(i) ==
    IF Succeeded(calls[i]) /\ calls[i].value[1] # Nil
    THEN calls[i].value[1][1] ELSE <<>>

\* The answer at position i holds a task with exactly the requested title.
ExactIn(i) == \E k \in 1..Len(AnswerAt(i)) : AnswerAt(i)[k].title = params.title

\* C4: a query whose result set holds a task with exactly the requested title
\* is the last query of the search: the lists after it in the search order
\* are never queried.
C4_ShortCircuitOnExact ==
    Finding =>
        \A i \in Queries :
            ExactIn(i) =>
                /\ i = Len(calls)
                /\ pc = "done"
                /\ \A j \in Queries : j < i => ~ExactIn(j)

\* The search ended on an exact match in the first of two lists.
C4_Witness ==
    /\ Finding /\ pc = "done"
    /\ Len(listsToSearch) = 2
    /\ Cardinality(Queries) = 1
    /\ \E i \in Queries : ExactIn(i) /\ calls[i].path[2] = listsToSearch[1]

\* The tasks the handler has seen, from the log: the answers in query order,
\* each answer up to and including its first exact title.
RECURSIVE UpToExact(_)
UpToExact(tasks) ==
    IF tasks = <<>> THEN <<>>
    ELSE IF Head(tasks).title = params.title THEN <<Head(tasks)>>
    ELSE <<Head(tasks)>> \o UpToExact(Tail(tasks))

RECURSIVE SeenFrom(_)
SeenFrom(i) ==
    IF i > Len(calls) THEN <<>>
    ELSE IF IsQuery(calls[i])
         THEN [k \in 1..Len(UpToExact(AnswerAt(i))) |->
                  [task |-> UpToExact(AnswerAt(i))[k], listId |-> calls[i].path[2]]]
              \o SeenFrom(i + 1)
         ELSE SeenFrom(i + 1)

Seen == SeenFrom(1)

ExactSeen == {k \in 1..Len(Seen) : Seen[k].task.title = params.title}

Returned == Finding /\ response # Nil /\ ~response[1].isError

C7_FailedListSkipped ==
    Finding =>
        /\ \A i \in Queries :
               (~Succeeded(calls[i]) /\ i = Len(calls)) =>
                   IF searched < Len(listsToSearch)
                   THEN pc = "searchList" /\ response = Nil
                   ELSE pc = "done" /\ response # Nil
        /\ (response # Nil /\ Queries # {}) =>
               /\ ~response[1].isError
               /\ ExactSeen = {} =>
                      /\ Cardinality(Queries) = Len(listsToSearch)
                      /\ Len(response[1].result.matches) = Len(Seen)
               /\ (\A i \in Queries : ~Succeeded(calls[i])) =>
                      response[1].result.matchType = "none"

\* The first list failed, the second was still queried and its tasks returned.
C7_Witness ==
    /\ Returned
    /\ Cardinality(Queries) = 2
    /\ \E i, j \in Queries : i < j /\ ~Succeeded(calls[i]) /\ Len(AnswerAt(j)) > 0
    /\ response[1].result.matchType = "partial"

KeywordBuildPart == <<"B", "u", "i", "l", "d", "P", "a", "r", "t">>

KeywordTapped == <<"T", "a", "p", "p", "e", "d">>

\* The keyword the handler used: in the filter of every query and in the
\* "none" result.
KeywordUsedIs(keyword) ==
    /\ \A i \in Queries : calls[i].filter[1].contains = keyword
    /\ (Returned /\ response[1].result.matchType = "none")
           => response[1].result.searchKeyword = Some(keyword)

\* C8 as stated: for the title "#ENG #BuildPart - Tapped Hole" the keyword
\* is "BuildPart".
C8_KeywordIsBuildPart ==
    (Finding /\ params.title = TitleTappedHole) => KeywordUsedIs(KeywordBuildPart)

\* C8: for the title "#ENG #BuildPart - Tapped Hole" the keyword is "Tapped",
\* the first token longer than 3 characters once the hashtag tokens are
\* removed whole.
C8_KeywordIsTapped ==
    (Finding /\ params.title = TitleTappedHole) => KeywordUsedIs(KeywordTapped)

\* A query for that title was issued.
C8_Witness ==
    /\ Finding /\ params.title = TitleTappedHole
    /\ \E i \in Queries : calls[i].filter[1].contains = KeywordTapped

\* The four metadata lines of the source task P1 of plan1, joined.
MetadataFooter ==
    <<"--- Converted from Planner ---", "\n",
      "Plan ID: plan1", "\n",
      "Original Task ID: P1", "\n",
      "Created: 2026-01-15T08:00:00Z">>

\* The non-empty description of the fetched details, Nil when the details are
\* absent or carry none.
SourceDescription ==
    IF taskDetails # Nil /\ taskDetails[1].description # Nil
       /\ taskDetails[1].description[1] # ""
    THEN taskDetails[1].description ELSE Nil

\* C11: the body of the creation request ends with the four metadata lines
\* (header, plan id, task id, creation timestamp) in that order whether or
\* not there is a description; with a description the body is the
\* description, an empty line and then those four lines, without one it is
\* the four lines alone.
C11_BodyEndsWithMetadata ==
    Converting =>
        \A i \in Positions(IsCreateCall) :
            LET content == calls[i].body[1].body.content
                n == Len(content)
            IN /\ n >= Len(MetadataFooter)
               /\ SubSeq(content, n - Len(MetadataFooter) + 1, n) = MetadataFooter
               /\ content = IF SourceDescription # Nil
                            THEN <<SourceDescription[1], "\n", "", "\n">>
                                 \o MetadataFooter
                            ELSE MetadataFooter
               /\ calls[i].body[1].body.contentType = "text"

\* A task whose details carry a description was created.
C11_Witness ==
    /\ Converting
    /\ SourceDescription = Some("Use M6 tap")
    /\ \E i \in Positions(IsCreateCall) :
           /\ Succeeded(calls[i])
           /\ Len(calls[i].body[1].body.content) = Len(MetadataFooter) + 4

IsDetailsFetch(c) ==
    c.method = "GET" /\ c.path = <<"planner/tasks", PlannerTaskId, "details">>

DetailsFetchFailed == \E i \in Positions(IsDetailsFetch) : ~Succeeded(calls[i])

\* C14: a failed fetch of the source task details does not end the
\* conversion: the details are absent, the handler goes on to resolve the
\* list and create the destination task with a body of the metadata lines
\* alone, no checklist item is attempted and checklistItems is "none", and
\* the source task is fetched again exactly when markPlannerComplete asks
\* for it.
C14_DetailsFailureNotFatal ==
    (Converting /\ DetailsFetchFailed) =>
        /\ taskDetails = Nil
        /\ \A i \in Positions(IsDetailsFetch) :
               i = Len(calls) =>
                   /\ response = Nil
                   /\ pc = IF params.todoTaskListId # Nil
                              /\ params.todoTaskListId[1] # ""
                           THEN "createTodoTask" ELSE "getDefaultList"
        /\ \A i \in Positions(IsCreateCall) :
               calls[i].body[1].body.content = MetadataFooter
        /\ ChecklistAttempts = {}
        /\ (response # Nil /\ response[1].isError) =>
               (IsListsCall(calls[Len(calls)]) \/ IsCreateCall(calls[Len(calls)]))
        /\ (response # Nil /\ ~response[1].isError) =>
               /\ Created
               /\ response[1].result.todoTask.checklistItems.text = "none"
               /\ Marking <=> Positions(IsRefetch) # {}
               /\ ~Marking => response[1].result.plannerTask.status = "unchanged"
               /\ Marking => response[1].result.plannerTask.status
                                 \in {"completed", "failed_to_complete"}

\* A conversion that returned success and marked the source task complete
\* although the details could not be fetched.
C14_Witness ==
    /\ Converting /\ DetailsFetchFailed
    /\ response # Nil /\ ~response[1].isError
    /\ response[1].result.todoTask.checklistItems.text = "none"
    /\ response[1].result.plannerTask.status = "completed"

\* The rank of a display name: the place of the first of 'ROI', 'Goal Phase',
\* 'Ad-Hoc', 'Tasks' it contains, and one more than all of them for a name
\* that contains none.
Contains(name, sub) ==
    \E k \in 1..Len(name) :
        /\ k + Len(sub) - 1 <= Len(name)
        /\ \A d \in 1..Len(sub) : name[k + d - 1] = sub[d]

ExpectedRank(name) ==
    IF Contains(name, <<"R", "O", "I">>) THEN 1
    ELSE IF Contains(name, <<"G", "o", "a", "l", " ", "P", "h", "a", "s", "e">>)
    THEN 2
    ELSE IF Contains(name, <<"A", "d", "-", "H", "o", "c">>) THEN 3
    ELSE IF Contains(name, <<"T", "a", "s", "k", "s">>) THEN 4
    ELSE 5

\* The rank of every display name a list can have.
RankOfName == [n \in {l.displayName : l \in ListPool} |-> ExpectedRank(n)]

ExplicitList == params.todoTaskListId # Nil /\ params.todoTaskListId[1] # ""

\* The place of a list id in the search order, 0 when it is not in it.
PlaceOf(id) ==
    IF \E k \in 1..Len(listsToSearch) : listsToSearch[k] = id
    THEN CHOOSE k \in 1..Len(listsToSearch) : listsToSearch[k] = id
    ELSE 0

\* The search order is the enumerated lists ordered by rank, lists of equal
\* rank in their enumerated order.
OrderedByRank(lists) ==
    LET rank == [a \in 1..Len(lists) |-> RankOfName[lists[a].displayName]]
        place == [a \in 1..Len(lists) |-> PlaceOf(lists[a].id)]
    IN  /\ Len(listsToSearch) = Len(lists)
        /\ \A a \in 1..Len(lists) : place[a] > 0
        /\ \A a, b \in 1..Len(lists) :
               (\/ rank[a] < rank[b]
                \/ rank[a] = rank[b] /\ a < b)
                   => place[a] < place[b]

\* The queries issued so far went to the lists of the search order, in order.
QueriesFollowOrder ==
    /\ Cardinality(Queries) <= Len(listsToSearch)
    /\ \A i \in Queries :
           calls[i].path[2] = listsToSearch[Cardinality({j \in Queries : j <= i})]

\* C15: with an explicit list id the lists are not enumerated and only that
\* list is queried; otherwise the lists are enumerated and queried in the
\* order of the rank of the first of 'ROI', 'Goal Phase', 'Ad-Hoc', 'Tasks'
\* their display name contains, lists containing none last, lists of equal
\* rank in their enumerated order.
C15_ListSelection ==
    Finding =>
        /\ QueriesFollowOrder
        /\ IF ExplicitList
           THEN /\ Positions(IsListsCall) = {}
                /\ listsToSearch = <<params.todoTaskListId[1]>>
           ELSE /\ Queries # {} => Positions(IsListsCall) = {1}
                /\ \A i \in Positions(IsListsCall) :
                       (Succeeded(calls[i]) /\ calls[i].value[1] # Nil)
                           => OrderedByRank(calls[i].value[1][1])

\* An unranked list was enumerated before the ROI list: the ROI list was
\* queried first, the unranked one after it.
C15_Witness ==
    /\ Finding /\ ~ExplicitList
    /\ Len(calls) = 3
    /\ IsListsCall(calls[1]) /\ Succeeded(calls[1])
    /\ Len(calls[1].value[1][1]) = 2
    /\ calls[1].value[1][1][1].id = "L5"
    /\ calls[1].value[1][1][2].id = "L3"
    /\ calls[2].path[2] = "L3"
    /\ calls[3].path[2] = "L5"

\* ------------------------------------------------------ client generator
\* A file or process call of the run failed.
Failed == \E i \in 1..Len(sys) : sys[i].outcome = "throw"

Thrown == result # Nil /\ result[1].threw

ReturnedTrue == result # Nil /\ ~result[1].threw

\* The client file holds the text the tool wrote although that text still
\* has something to post-process.
UnprocessedFileLeft ==
    /\ generated # Nil
    /\ disk.client = generated
    /\ PostProcess(generated[1]) # generated[1]

\* A failure ends the run with an error that adds context to its message.
FailureIsWrapped ==
    /\ Failed =>
           /\ gpc = "done"
           /\ Thrown
           /\ \A i \in 1..(Len(sys) - 1) : sys[i].outcome = "ok"
           /\ result[1].message
                  = "Error generating client code: " \o sys[Len(sys)].message
    /\ Thrown => Failed

\* Success is returned only after every call succeeded, with the directory
\* present and the client file holding the post-processed generated text.
SuccessIsComplete ==
    ReturnedTrue =>
        /\ ~Failed
        /\ gpc = "done"
        /\ generated # Nil
        /\ disk.dir
        /\ disk.client = Some(PostProcess(generated[1]))
        /\ disk.client = Some(clientCode)

\* C12 as stated: every failure is wrapped and thrown again with added
\* context, success is returned only with the generated file fully
\* post-processed, and a run that throws leaves no generated but
\* un-post-processed client file.
C12_AllOrNothing ==
    /\ FailureIsWrapped
    /\ SuccessIsComplete
    /\ Thrown => ~UnprocessedFileLeft

\* C12 amended: every failure is wrapped and thrown again with added context
\* and success is returned only with the generated file fully post-processed;
\* a run that throws after the tool has run leaves the client file as the
\* tool wrote it, without the post-processing, or empty, and a run that
\* throws before the tool has run leaves the client file as it found it.
C12_FailureWrappedSuccessComplete ==
    /\ FailureIsWrapped
    /\ SuccessIsComplete
    /\ (Thrown /\ generated # Nil) => disk.client \in {generated, Some(<<>>)}
    /\ (Thrown /\ generated = Nil) => disk.client \in {Nil, Some(StaleClient)}

\* The read of the generated file failed: the run threw the wrapped error and
\* the file the tool wrote is left without its post-processing.
C12_Witness ==
    /\ Thrown
    /\ Len(sys) > 1
    /\ sys[Len(sys)].op = "readFileSync"
    /\ sys[Len(sys) - 1].op = "execSync"
    /\ UnprocessedFileLeft
    /\ result[1].message
           = "Error generating client code: EACCES: permission denied, open"

\* The generated file was read and its text post-processed.
PostProcessed ==
    \E i \in 1..Len(sys) : sys[i].op = "readFileSync" /\ sys[i].outcome = "ok"

\* The text has no import to redirect.
MissingImport(text) == \A i \in 1..Len(text) : text[i] # ImportZodios

\* The text has no definition of the named schema that is followed by a
\* strict end.
MissingSchema(text, name) ==
    \A i, j \in 1..Len(text) :
        ~(i < j /\ text[i] = ConstOf(name) /\ text[j] = CloseStrict)

\* The text has no errors array.
MissingErrors(text) == \A i \in 1..Len(text) : text[i] # Errors

\* C13: once the generated text is read, no error is raised by the
\* post-processing, and a substitution whose pattern is missing from the
\* generated text changes nothing: the text held is the generated text with
\* the other substitutions applied, and the generated text itself when every
\* pattern is missing.
C13_MissingPatternIsNoOp ==
    PostProcessed =>
        LET raw == generated[1]
        IN  /\ gpc = "write" => result = Nil
            /\ \A i \in 1..Len(sys) :
                   sys[i].outcome = "throw" => sys[i].op = "writeFileSync"
            /\ MissingImport(raw) =>
                   clientCode = StripErrors(RelaxSchema(
                       RelaxSchema(raw, Attachment), PlannerAssignments))
            /\ MissingSchema(raw, Attachment) =>
                   clientCode = StripErrors(RelaxSchema(
                       RedirectImport(raw), PlannerAssignments))
            /\ MissingSchema(raw, PlannerAssignments) =>
                   clientCode = StripErrors(RelaxSchema(
                       RedirectImport(raw), Attachment))
            /\ MissingErrors(raw) =>
                   clientCode = RelaxSchema(RelaxSchema(
                       RedirectImport(raw), Attachment), PlannerAssignments)
            /\ (/\ MissingImport(raw)
                /\ MissingSchema(raw, Attachment)
                /\ MissingSchema(raw, PlannerAssignments)
                /\ MissingErrors(raw)) => clientCode = raw

\* The generated text has no attachment schema but a strict definition of
\* another schema, the import, a strict plannerAssignments schema and an
\* errors array: the other schema stays strict, the rest is rewritten, and
\* the file is written.
C13_Witness ==
    /\ PostProcessed /\ ReturnedTrue
    /\ generated = Some(<<ImportZodios,
                          ConstOf("message"), Fields, CloseStrict,
                          ConstOf(PlannerAssignments), Fields, CloseStrict,
                          EndpointOpen, Errors, EndpointClose>>)
    /\ disk.client = Some(<<ImportHack,
                            ConstOf("message"), Fields, CloseStrict,
                            ConstOf(PlannerAssignments), Fields, ClosePassthrough,
                            EndpointOpen, EndpointClose>>)

====
